---- MODULE Spec2Model ----
(***************************************************************************)
(* Model of install.py, the OUROBOROS build/install orchestrator.          *)
(*                                                                         *)
(* One invocation of the tool is main() run for one command.  The control  *)
(* flow is sequential and blocks on every child process, so each action    *)
(* below is the code that runs from the exit of one child process up to    *)
(* the spawn of the next one (or up to sys.exit).  The host (tools on the  *)
(* PATH, build directory, installed files) persists between invocations.   *)
(* Exit codes of child processes and their effects on the filesystem are   *)
(* inputs.  Child processes are assumed to be launchable and filesystem    *)
(* calls of the script itself are assumed not to raise.                    *)
(***************************************************************************)
EXTENDS Integers, Sequences, FiniteSets, TLC

\* ------------------------------------------------------------------ bounds
MaxInvocations == 2

\* --------------------------------------------------------------- constants
Commands == {"install", "build", "clean", "uninstall", "test"}

ToolNames == {"cmake", "g++", "clang++", "pkg-config"}

REQUIRED_DEPS ==
    << <<"libpipewire-0.3", "PipeWire">>,
       <<"libspa-0.2", "SPA (PipeWire)">>,
       <<"libmpg123", "mpg123">>,
       <<"sndfile", "libsndfile">>,
       <<"vorbisfile", "libvorbis">>,
       <<"icu-uc", "ICU">>,
       <<"icu-i18n", "ICU i18n">> >>

\* files = [prefix/bin/ouroboros, prefix/share/man/man1/ouroboros.1]
files == << "bin/ouroboros", "share/man/man1/ouroboros.1" >>

FileNames == { files[i] : i \in 1..Len(files) }

\* what a path of the expected set is on disk: nothing, something exists()
\* reports, or a dangling symlink (exists() is False, is_symlink() is True)
FileStates == {"absent", "file", "symlink"}

\* exit codes a build/install/test/rm child can return
ExitCodes == {0, 1, 2}

\* exit codes of `pkg-config --exists`
ProbeExitCodes == {0, 1}

NoExit == -1

VARIABLES
    invocation,  \* number of invocations of the tool started so far
    command,     \* args.command of the current invocation
    pc,          \* where the current invocation is blocked
    tools,       \* executables `which` resolves on this host
    fs,          \* host filesystem: build directory and installed files
    fs0,         \* fs when the current invocation started
    spawned,     \* argv of every child process spawned by this invocation
    rets,        \* exit codes of the children that have exited, in order
    log,         \* lines written to the console, <<level, text>>
    missing,     \* main's local list `missing`
    depIdx,      \* position of the REQUIRED_DEPS loop
    fileIdx,     \* position of cmd_uninstall's loop over files
    removed,     \* cmd_uninstall's local flag `removed`
    exitCode     \* process exit status, NoExit while running

vars == << invocation, command, pc, tools, fs, fs0, spawned, rets, log,
           missing, depIdx, fileIdx, removed, exitCode >>

\* ------------------------------------------------------------ filesystem
FsStates ==
    { f \in [ buildDir : BOOLEAN, marker : BOOLEAN, binary : BOOLEAN,
              installed : [FileNames -> FileStates] ] :
        /\ f.marker => f.buildDir
        /\ f.binary => f.buildDir }

\* Path.exists()
exists(st) == st = "file"

\* Path.is_symlink() on a path exists() does not report
is_symlink(st) == st = "symlink"

\* ---------------------------------------------------------------- logging
log_info(l, msg) == Append(l, <<"INFO", msg>>)

log_warn(l, msg) == Append(l, <<"WARN", msg>>)

log_error(l, msg) == Append(l, <<"ERROR", msg>>)

print(l, msg) == Append(l, <<"PRINT", msg>>)

\* ------------------------------------------------------ command execution
\* run_cmd_sudo: prepend the elevation command
run_cmd_sudo(cmd) == <<"sudo">> \o cmd

\* exit code of `which name` on this host
Which(name) == IF name \in tools THEN 0 ELSE 1

\* a probe whose exit code is ignored
check_ok_ignored(ret) == TRUE

\* check_cmake / check_pkg_config / check_dependency: ret == 0
check_ok(ret) == ret = 0

\* dependency checks in front of every command
ChecksDeps_all(c) == TRUE

\* commands for which main runs the dependency checks
ChecksDeps(c) == c \in {"install", "build", "test"}

\* remediation text printed for a missing tool, one line per platform
Remediation(l, arch, debian, fedora) ==
    print(print(print(log_info(l, "Install it first:"), arch), debian), fedora)

\* ------------------------------------------------------------------- Init
Init ==
    /\ invocation = 0
    /\ command = "install"
    /\ pc = "idle"
    /\ tools \in SUBSET ToolNames
    /\ fs \in FsStates
    /\ fs0 = fs
    /\ spawned = <<>>
    /\ rets = <<>>
    /\ log = <<>>
    /\ missing = <<>>
    /\ depIdx = 0
    /\ fileIdx = 0
    /\ removed = FALSE
    /\ exitCode = NoExit

\* a new invocation may start when the tool is not running
CanInvoke ==
    /\ pc \in {"idle", "done"}
    /\ invocation < MaxInvocations

\* state of a fresh process entering main()
Fresh(c) ==
    /\ invocation' = invocation + 1
    /\ command' = c
    /\ fs0' = fs
    /\ rets' = <<>>
    /\ missing' = <<>>
    /\ depIdx' = 0
    /\ removed' = FALSE
    /\ tools' = tools

Banner == log_info(<<>>, "OUROBOROS installer")

\* what stays fixed while one invocation runs
Frame == UNCHANGED << invocation, command, tools, fs0 >>

\* run_cmd / run_cmd_capture: the child is spawned and the script blocks
SpawnOn(sp, argv, where, l) ==
    /\ spawned' = Append(sp, argv)
    /\ pc' = where
    /\ log' = l
    /\ exitCode' = NoExit

Spawn(argv, where, l) == SpawnOn(spawned, argv, where, l)

\* sys.exit(code) with the final console contents
ExitOn(sp, code, l) ==
    /\ pc' = "done"
    /\ exitCode' = code
    /\ log' = l
    /\ spawned' = sp

Exit(code, l) == ExitOn(spawned, code, l)

\* a failure status other than 1
ExitStatus_two(success) == IF success THEN 0 ELSE 2

\* return 0 if success else 1
ExitStatus(success) == IF success THEN 0 ELSE 1

\* ------------------------------------------------- effects of the children
\* cmake -S .. -B build: creates the build directory; a successful run of a
\* Makefile generator writes build/Makefile, another generator does not
ConfigureEffects(ret) ==
    IF ret = 0
    THEN { [fs EXCEPT !.buildDir = TRUE, !.marker = m] : m \in {fs.marker, TRUE} }
    ELSE { [fs EXCEPT !.buildDir = b] : b \in {fs.buildDir, TRUE} }

\* cmake --build build: a successful run may leave build/ouroboros
CompileEffects(ret) ==
    IF ret = 0
    THEN { [fs EXCEPT !.binary = b] : b \in {fs.binary, TRUE} }
    ELSE { fs }

\* sudo cmake --install build: writes the binary, then the man page
InstallEffects(ret) ==
    IF ret = 0
    THEN { [fs EXCEPT !.installed = [f \in FileNames |-> "file"]] }
    ELSE { fs, [fs EXCEPT !.installed[files[1]] = "file"] }

\* sudo rm -f f
RmEffects(ret, f) ==
    IF ret = 0
    THEN { [fs EXCEPT !.installed[f] = "absent"] }
    ELSE { fs }

\* a clean that empties the build directory but keeps it
RmtreeEffect_keepsDir == [fs EXCEPT !.marker = FALSE]

\* shutil.rmtree(build_dir) run to completion
RmtreeEffect == [fs EXCEPT !.buildDir = FALSE, !.marker = FALSE, !.binary = FALSE]

\* shutil.rmtree(build_dir) cut short: any part of the tree may be gone
RmtreePartial ==
    { f \in FsStates :
        /\ f.installed = fs.installed
        /\ f.buildDir => fs.buildDir
        /\ f.marker => fs.marker
        /\ f.binary => fs.binary }

\* ------------------------------------------------------------- cmd_build
\* a generator run through the elevation command
cmake_args_elevated == run_cmd_sudo(<<"cmake", "-S", "-B">>)

cmake_args == <<"cmake", "-S", "-B">>

build_cmd == <<"cmake", "--build">>

\* cmd_build up to run_cmd(cmake_args)
StartBuild(l) == Spawn(cmake_args, "configure", log_info(l, "CONFIGURING BUILD"))

\* a phase whose exit code is not looked at
Failed_never(ret) == FALSE

\* ret != 0 after run_cmd: the phase failed
Failed(ret) == ret # 0

\* -------------------------------------------------------------- cmd_test
ctest_cmd == <<"ctest", "--test-dir", "--output-on-failure">>

\* cmd_test looking at the build directory instead of the marker
NeedsBuild_dir(f) == ~f.buildDir

\* not (build_dir / "Makefile").exists()
NeedsBuild(f) == ~f.marker

StartTests(l) == Spawn(ctest_cmd, "ctest", l)

\* cmd_test up to its first child process
StartTest(l) ==
    IF NeedsBuild(fs)
    THEN StartBuild(log_info(log_info(l, "RUNNING TESTS"),
                             "Project not built. Building first..."))
    ELSE StartTests(log_info(l, "RUNNING TESTS"))

\* ----------------------------------------------------------- cmd_install
install_cmd == <<"sudo", "cmake", "--install">>

StartInstallStep(l) ==
    Spawn(install_cmd, "install_step", log_info(l, "INSTALLING"))

\* cmd_install ignoring the result of cmd_build
install_continues_always(build_ok) == TRUE

\* if not cmd_build(args, source_dir): return False
install_continues(build_ok) == build_ok

\* cmd_test: if not cmd_build(args, source_dir): return False
test_continues(build_ok) == build_ok

\* cmd_build returned build_ok to its caller: main, cmd_install or cmd_test
AfterBuild(build_ok, l) ==
    CASE command = "build" -> Exit(ExitStatus(build_ok), l)
      [] command = "install" ->
            IF install_continues(build_ok)
            THEN StartInstallStep(l)
            ELSE Exit(ExitStatus(FALSE), l)
      [] OTHER ->
            IF test_continues(build_ok)
            THEN StartTests(l)
            ELSE Exit(ExitStatus(FALSE), l)

\* commands[args.command](args, source_dir) for build, install and test
RunChecked(l) ==
    IF command = "test" THEN StartTest(l) ELSE StartBuild(l)

\* ------------------------------------------------------------------ main
\* main, build/install/test: banner, then the first probe is spawned
InvokeChecked(c) ==
    /\ CanInvoke
    /\ ChecksDeps(c)
    /\ Fresh(c)
    /\ log' = log_info(Banner, "CHECKING DEPENDENCIES")
    /\ spawned' = << <<"which", "cmake">> >>
    /\ pc' = "check_cmake"
    /\ exitCode' = NoExit
    /\ UNCHANGED << fs, fileIdx >>

\* check_cmake() returned
CheckCmakeExit ==
    /\ pc = "check_cmake"
    /\ LET ret == Which("cmake") IN
        /\ rets' = Append(rets, ret)
        /\ IF ~check_ok(ret)
           THEN Exit(1, Remediation(log_error(log, "cmake not found!"),
                        "Arch Linux: sudo pacman -S cmake",
                        "Debian/Ubuntu: sudo apt install cmake",
                        "Fedora: sudo dnf install cmake"))
           ELSE Spawn(<<"which", "g++">>, "check_gpp", log_info(log, "cmake found"))
    /\ Frame
    /\ UNCHANGED << fs, missing, depIdx, fileIdx, removed >>

\* check_compiler(), first candidate returned
CheckGppExit ==
    /\ pc = "check_gpp"
    /\ LET ret == Which("g++") IN
        /\ rets' = Append(rets, ret)
        /\ IF check_ok(ret)
           THEN Spawn(<<"which", "pkg-config">>, "check_pkg_config",
                      log_info(log, "C++ compiler found"))
           ELSE Spawn(<<"which", "clang++">>, "check_clangpp", log)
    /\ Frame
    /\ UNCHANGED << fs, missing, depIdx, fileIdx, removed >>

\* check_compiler(), second candidate returned
CheckClangExit ==
    /\ pc = "check_clangpp"
    /\ LET ret == Which("clang++") IN
        /\ rets' = Append(rets, ret)
        /\ IF check_ok(ret)
           THEN Spawn(<<"which", "pkg-config">>, "check_pkg_config",
                      log_info(log, "C++ compiler found"))
           ELSE Exit(1, Remediation(log_error(log, "C++ compiler not found!"),
                        "Arch Linux: sudo pacman -S gcc",
                        "Debian/Ubuntu: sudo apt install build-essential",
                        "Fedora: sudo dnf install gcc-c++"))
    /\ Frame
    /\ UNCHANGED << fs, missing, depIdx, fileIdx, removed >>

\* check_pkg_config() returned; on success the REQUIRED_DEPS loop starts
CheckPkgConfigExit ==
    /\ pc = "check_pkg_config"
    /\ LET ret == Which("pkg-config") IN
        /\ rets' = Append(rets, ret)
        /\ IF ~check_ok(ret)
           THEN /\ Exit(1, Remediation(log_error(log, "pkg-config not found!"),
                        "Arch Linux: sudo pacman -S pkgconf",
                        "Debian/Ubuntu: sudo apt install pkg-config",
                        "Fedora: sudo dnf install pkgconf-pkg-config"))
                /\ depIdx' = depIdx
           ELSE /\ Spawn(<<"pkg-config", "--exists", REQUIRED_DEPS[1][1]>>,
                         "check_dep", log_info(log, "pkg-config found"))
                /\ depIdx' = 1
    /\ Frame
    /\ UNCHANGED << fs, missing, fileIdx, removed >>

\* a loop that stops recording after the first missing library
AddMissing_first(m, dep, ok) == IF ok \/ m # <<>> THEN m ELSE Append(m, dep)

\* if not check_dependency(name): missing.append((name, friendly))
AddMissing(m, dep, ok) == IF ok THEN m ELSE Append(m, dep)

\* the lines printed for the list `missing`
RECURSIVE PrintMissing(_, _)
PrintMissing(l, m) ==
    IF m = <<>> THEN l
    ELSE PrintMissing(print(l, Head(m)[1]), Tail(m))

\* the report of main when `missing` is not empty
MissingReport(l, m) ==
    print(print(print(log_info(
        PrintMissing(log_info(log_error(l, "Missing dependencies!"),
                              "The following libraries are required:"), m),
        "Install them:"),
        "Arch Linux: sudo pacman -S pipewire mpg123 libsndfile libvorbis icu openssl"),
        "Debian/Ubuntu: sudo apt install libpipewire-0.3-dev libspa-0.2-dev libmpg123-dev libsndfile1-dev libvorbis-dev libicu-dev libssl-dev"),
        "Fedora: sudo dnf install pipewire-devel mpg123-devel libsndfile-devel libvorbis-devel libicu-devel openssl-devel")

\* a loop that breaks at the first missing library
MoreDeps_untilMiss(i, m) == i < Len(REQUIRED_DEPS) /\ m = <<>>

\* for pkg_config_name, friendly_name in REQUIRED_DEPS: the loop goes on
\* after entry i whatever was found missing so far
MoreDeps(i, m) == i < Len(REQUIRED_DEPS)

\* a report that is never made
HasMissing_never(m) == FALSE

\* if missing:
HasMissing(m) == m # <<>>

\* check_dependency(REQUIRED_DEPS[depIdx]) returned; after the last entry
\* main reports the missing list or runs the command
CheckDepExit(ret) ==
    /\ pc = "check_dep"
    /\ rets' = Append(rets, ret)
    /\ LET m == AddMissing(missing, REQUIRED_DEPS[depIdx], check_ok(ret)) IN
        /\ missing' = m
        /\ IF MoreDeps(depIdx, m)
           THEN /\ Spawn(<<"pkg-config", "--exists", REQUIRED_DEPS[depIdx + 1][1]>>,
                         "check_dep", log)
                /\ depIdx' = depIdx + 1
           ELSE /\ depIdx' = depIdx
                /\ IF HasMissing(m)
                   THEN Exit(1, MissingReport(log, m))
                   ELSE RunChecked(log_info(log, "All dependencies found"))
    /\ Frame
    /\ UNCHANGED << fs, fileIdx, removed >>


\* ------------------------------------------------- cmd_build, continued
\* run_cmd(cmake_args) returned
ConfigureExit(ret, f) ==
    /\ pc = "configure"
    /\ f \in ConfigureEffects(ret)
    /\ fs' = f
    /\ rets' = Append(rets, ret)
    /\ IF Failed(ret)
       THEN AfterBuild(FALSE, log_error(log, "cmake configure failed!"))
       ELSE Spawn(build_cmd, "compile",
                  log_info(log_info(log, "Configuration complete"), "BUILDING"))
    /\ Frame
    /\ UNCHANGED << missing, depIdx, fileIdx, removed >>

\* a build that reports nothing
ReportBuilt_never(f, l) == l

\* if binary.exists(): log_info(f"Built {binary} ...")
ReportBuilt(f, l) == IF f.binary THEN log_info(l, "Built build/ouroboros") ELSE l

\* run_cmd(build_cmd) returned; cmd_build returns to its caller
CompileExit(ret, f) ==
    /\ pc = "compile"
    /\ f \in CompileEffects(ret)
    /\ fs' = f
    /\ rets' = Append(rets, ret)
    /\ IF Failed(ret)
       THEN AfterBuild(FALSE, log_error(log, "Build failed!"))
       ELSE AfterBuild(TRUE, ReportBuilt(f, log))
    /\ Frame
    /\ UNCHANGED << missing, depIdx, fileIdx, removed >>

\* ------------------------------------------------ cmd_install, continued
\* run_cmd(["sudo", "cmake", "--install", build_dir]) returned
InstallExit(ret, f) ==
    /\ pc = "install_step"
    /\ f \in InstallEffects(ret)
    /\ fs' = f
    /\ rets' = Append(rets, ret)
    /\ IF Failed(ret)
       THEN Exit(ExitStatus(FALSE), log_error(log, "Install failed!"))
       ELSE Exit(ExitStatus(TRUE),
                 log_info(IF exists(f.installed[files[1]])
                          THEN log_info(log, "Installed bin/ouroboros")
                          ELSE log,
                          "SUCCESS. Installation complete."))
    /\ Frame
    /\ UNCHANGED << missing, depIdx, fileIdx, removed >>

\* --------------------------------------------------- cmd_test, continued
\* a test runner that only fails with exit code 1
tests_passed_notOne(ret) == ret # 1

\* return ret == 0
tests_passed(ret) == ret = 0

\* run_cmd(["ctest", ...]) returned
CtestExit(ret) ==
    /\ pc = "ctest"
    /\ rets' = Append(rets, ret)
    /\ Exit(ExitStatus(tests_passed(ret)),
            IF ret = 0
            THEN log_info(log, "All tests passed")
            ELSE log_error(log, "Some tests failed"))
    /\ Frame
    /\ UNCHANGED << fs, missing, depIdx, fileIdx, removed >>

\* -------------------------------------------------------------- cmd_clean
\* main and cmd_clean up to shutil.rmtree, or to the end if there is no
\* build directory
InvokeClean ==
    /\ CanInvoke
    /\ Fresh("clean")
    /\ spawned' = <<>>
    /\ IF fs.buildDir
       THEN /\ pc' = "rmtree"
            /\ exitCode' = NoExit
            /\ log' = log_info(log_info(Banner, "CLEANING"), "Removing build")
       ELSE /\ pc' = "done"
            /\ exitCode' = ExitStatus(TRUE)
            /\ log' = log_info(log_info(Banner, "CLEANING"), "Nothing to clean")
    /\ UNCHANGED << fs, fileIdx >>

\* shutil.rmtree(build_dir) returned
RmtreeDone ==
    /\ pc = "rmtree"
    /\ fs' = RmtreeEffect
    /\ Exit(ExitStatus(TRUE), log_info(log, "Clean complete"))
    /\ Frame
    /\ UNCHANGED << rets, missing, depIdx, fileIdx, removed >>

\* ---------------------------------------------------------- cmd_uninstall
\* a loop that removes every path of the expected set unconditionally
ShouldRemove_always(st) == TRUE

\* if f.exists() or f.is_symlink()
ShouldRemove(st) == exists(st) \/ is_symlink(st)

\* the next file of the loop, from position i on, that the loop body acts
\* on; 0 when the loop runs out
RECURSIVE NextToRemove(_, _)
NextToRemove(f, i) ==
    IF i > Len(files) THEN 0
    ELSE IF ShouldRemove(f.installed[files[i]]) THEN i
    ELSE NextToRemove(f, i + 1)

\* a warning that does not look at the flag
WarnNothing_always(rem, l) == log_warn(l, "No installed files found")

\* if not removed: log_warn(...)
WarnNothing(rem, l) == IF ~rem THEN log_warn(l, "No installed files found") ELSE l

\* the loop of cmd_uninstall from position i up to the next run_cmd_sudo,
\* or to the end of the command
UninstallFrom(sp, f, i, rem, l) ==
    LET j == NextToRemove(f, i) IN
    IF j = 0
    THEN /\ fileIdx' = Len(files) + 1
         /\ ExitOn(sp, ExitStatus(TRUE), WarnNothing(rem, l))
    ELSE /\ fileIdx' = j
         /\ SpawnOn(sp, run_cmd_sudo(<<"rm", "-f", files[j]>>), "rm",
                    log_info(l, "Removing"))

\* main and cmd_uninstall up to the first removal
InvokeUninstall ==
    /\ CanInvoke
    /\ Fresh("uninstall")
    /\ UninstallFrom(<<>>, fs, 1, FALSE, log_info(Banner, "UNINSTALLING"))
    /\ UNCHANGED fs

\* a loop that tries a file again until its removal succeeds
NextFile_retry(i, ret) == IF ret = 0 THEN i + 1 ELSE i

\* for f in files: the loop moves on to the next file whatever rm returned
NextFile(i, ret) == i + 1

\* ret == 0 after run_cmd_sudo(["rm", "-f", f])
rm_ok(ret) == ret = 0

\* run_cmd_sudo(["rm", "-f", f]) returned; the loop goes on
RmExit(ret, f) ==
    /\ pc = "rm"
    /\ f \in RmEffects(ret, files[fileIdx])
    /\ fs' = f
    /\ rets' = Append(rets, ret)
    /\ removed' = (removed \/ rm_ok(ret))
    /\ UninstallFrom(spawned, f, NextFile(fileIdx, ret), removed \/ rm_ok(ret),
                     IF rm_ok(ret)
                     THEN log_info(log, "Removed")
                     ELSE log_error(log, "Failed to remove"))
    /\ Frame
    /\ UNCHANGED << missing, depIdx >>

\* ------------------------------------------------------ operator interrupt
\* an interrupt handler that puts the host back as the run found it
InterruptEffects_rollback == { fs0 }

\* what the child that is running may have done when it is cut short
InterruptEffects ==
    CASE pc = "configure" -> UNION { ConfigureEffects(r) : r \in ExitCodes }
      [] pc = "compile" -> UNION { CompileEffects(r) : r \in ExitCodes }
      [] pc = "install_step" -> UNION { InstallEffects(r) : r \in ExitCodes }
      [] pc = "rm" -> UNION { RmEffects(r, files[fileIdx]) : r \in ExitCodes }
      [] pc = "rmtree" -> RmtreePartial
      [] OTHER -> { fs }

\* an interrupt reported as an ordinary failure
InterruptStatus_failure == ExitStatus(FALSE)

\* sys.exit(130)
InterruptStatus == 130

\* except KeyboardInterrupt: print, sys.exit(130)
Interrupt(f) ==
    /\ pc \notin {"idle", "done"}
    /\ f \in InterruptEffects
    /\ fs' = f
    /\ Exit(InterruptStatus, print(log, "Interrupted by user."))
    /\ Frame
    /\ UNCHANGED << rets, missing, depIdx, fileIdx, removed >>

\* ------------------------------------------------------------------- Next
Next ==
    \/ \E c \in Commands : InvokeChecked(c)
    \/ CheckCmakeExit
    \/ CheckGppExit
    \/ CheckClangExit
    \/ CheckPkgConfigExit
    \/ \E ret \in ProbeExitCodes : CheckDepExit(ret)
    \/ \E ret \in ExitCodes, f \in FsStates : ConfigureExit(ret, f)
    \/ \E ret \in ExitCodes, f \in FsStates : CompileExit(ret, f)
    \/ \E ret \in ExitCodes, f \in FsStates : InstallExit(ret, f)
    \/ \E ret \in ExitCodes : CtestExit(ret)
    \/ InvokeClean
    \/ RmtreeDone
    \/ InvokeUninstall
    \/ \E ret \in ExitCodes, f \in FsStates : RmExit(ret, f)
    \/ \E f \in FsStates : Interrupt(f)

Spec == Init /\ [][Next]_vars

\* subprocess.run returns: the child the script is blocked on exits, or the
\* rmtree it is running finishes
ChildExits ==
    \/ CheckCmakeExit
    \/ CheckGppExit
    \/ CheckClangExit
    \/ CheckPkgConfigExit
    \/ \E ret \in ProbeExitCodes : CheckDepExit(ret)
    \/ \E ret \in ExitCodes, f \in FsStates : ConfigureExit(ret, f)
    \/ \E ret \in ExitCodes, f \in FsStates : CompileExit(ret, f)
    \/ \E ret \in ExitCodes, f \in FsStates : InstallExit(ret, f)
    \/ \E ret \in ExitCodes : CtestExit(ret)
    \/ RmtreeDone
    \/ \E ret \in ExitCodes, f \in FsStates : RmExit(ret, f)

\* the hosts the runs with fairness start from: no tool at all, cmake and
\* g++ without pkg-config, or every tool but g++; either a fresh host with a
\* leftover binary or dangling symlink, or a built and installed one
InitLive ==
    /\ Init
    /\ tools \in { ToolNames \ {"g++"}, {"cmake", "g++"}, {} }
    /\ fs.marker = fs.buildDir
    /\ fs.binary = fs.buildDir
    /\ fs.installed[files[1]] # "absent"
    /\ fs.installed[files[2]] = (IF fs.buildDir THEN "file" ELSE "absent")

\* every child process eventually exits; the operator need not interrupt
\* and the tool need not be invoked again
LiveSpec == InitLive /\ [][Next]_vars /\ WF_vars(ChildExits)

\* ------------------------------------------------------------ type invariant
TypeOK ==
    /\ invocation \in 0..MaxInvocations
    /\ command \in Commands
    /\ tools \subseteq ToolNames
    /\ fs \in FsStates
    /\ fs0 \in FsStates
    /\ exitCode \in {NoExit, 0, 1, 130}
    /\ Len(rets) \in {Len(spawned), Len(spawned) - 1}

\* ------------------------------------------------- observations on a run
Range(s) == { s[i] : i \in 1..Len(s) }

Logged(level, msg) == <<level, msg>> \in Range(log)

\* the run was ended by the KeyboardInterrupt handler
Interrupted == Logged("PRINT", "Interrupted by user.")

\* main ran to its own sys.exit
Completed == pc = "done" /\ ~Interrupted

\* a child that is not a read-only probe: generator, build driver, install
\* step, test runner, elevated removal
IsPhase(argv) == argv[1] \notin {"which", "pkg-config"}

PhaseIdx == { k \in 1..Len(spawned) : IsPhase(spawned[k]) }

SpawnedAt(argv) == { k \in 1..Len(spawned) : spawned[k] = argv }

\* a child of the build phase has returned a non-zero exit code
BuildPhaseFailed ==
    \E k \in 1..Len(rets) : spawned[k] \in {cmake_args, build_cmd} /\ rets[k] # 0

CompilerPresent == "g++" \in tools \/ "clang++" \in tools

ToolAbsent == "cmake" \notin tools \/ ~CompilerPresent \/ "pkg-config" \notin tools

FirstAbsentReport ==
    IF "cmake" \notin tools THEN "cmake not found!"
    ELSE IF ~CompilerPresent THEN "C++ compiler not found!"
    ELSE "pkg-config not found!"

ErrorLines == SelectSeq(log, LAMBDA e : e[1] = "ERROR")

PrintLines == SelectSeq(log, LAMBDA e : e[1] = "PRINT")

\* ------------------------------------------------------------------ claims

\* C1 as stated: for every command, clean and uninstall included, a missing
\* tool means that no generator, build driver, install step, test runner or
\* elevated removal is ever spawned.
C1_AllCommands == (invocation > 0 /\ ToolAbsent) => PhaseIdx = {}

\* C1 amended: for build, install and test, if a required tool is absent no
\* build/install/test process is spawned, and a run that is not interrupted
\* ends with exit status 1 and reports exactly the first absent tool in the
\* order cmake, compiler, pkg-config, with three lines of remediation.
C1_ToolAbortsChecked ==
    (invocation > 0 /\ ChecksDeps(command) /\ ToolAbsent) =>
        /\ PhaseIdx = {}
        /\ Completed =>
            /\ exitCode = 1
            /\ ErrorLines = << <<"ERROR", FirstAbsentReport>> >>
            /\ Len(PrintLines) = 3

C1_Witness ==
    /\ command = "install"
    /\ Completed
    /\ "cmake" \in tools
    /\ "pkg-config" \notin tools
    /\ ~CompilerPresent
    /\ Logged("ERROR", "C++ compiler not found!")
    /\ Logged("PRINT", "Debian/Ubuntu: sudo apt install build-essential")

\* the position in spawned of the probe of the i-th required library
DepProbe(i) ==
    CHOOSE k \in 1..Len(spawned) :
        spawned[k] = <<"pkg-config", "--exists", REQUIRED_DEPS[i][1]>>

\* the indexes of the required libraries whose probe failed
AbsentDeps == { i \in 1..Len(REQUIRED_DEPS) : rets[DepProbe(i)] # 0 }

DepNames == { REQUIRED_DEPS[i][1] : i \in 1..Len(REQUIRED_DEPS) }

\* the library names listed in the failure report, in the order printed
ReportedDeps == SelectSeq(log, LAMBDA e : e[1] = "PRINT" /\ e[2] \in DepNames)

\* s lists exactly the entries of REQUIRED_DEPS with an index in S, in order
ListsExactly(s, S) ==
    /\ Len(s) = Cardinality(S)
    /\ \A i \in S : \E k \in 1..Len(s) : s[k] = <<"PRINT", REQUIRED_DEPS[i][1]>>
    /\ \A k, n \in 1..Len(s) :
        k < n => \E i, j \in S : /\ i < j
                                 /\ s[k][2] = REQUIRED_DEPS[i][1]
                                 /\ s[n][2] = REQUIRED_DEPS[j][1]

\* C2: build, install or test with all three tools present, run to the end:
\* if the set S of absent libraries is not empty the exit status is 1, the
\* report lists exactly S in list order and no phase process is spawned; if
\* S is empty the command goes on to its phases.
C2_ReportsExactlyMissing ==
    (invocation > 0 /\ ChecksDeps(command) /\ ~ToolAbsent /\ Completed) =>
        IF AbsentDeps # {}
        THEN /\ exitCode = 1
             /\ ListsExactly(ReportedDeps, AbsentDeps)
             /\ PhaseIdx = {}
             /\ Logged("ERROR", "Missing dependencies!")
        ELSE /\ PhaseIdx # {}
             /\ ReportedDeps = <<>>
             /\ Logged("INFO", "All dependencies found")

C2_Witness ==
    /\ command = "build"
    /\ Completed
    /\ ~ToolAbsent
    /\ exitCode = 1
    /\ AbsentDeps = {2, 5, 7}
    /\ ReportedDeps = << <<"PRINT", "libspa-0.2">>, <<"PRINT", "vorbisfile">>,
                         <<"PRINT", "icu-i18n">> >>

\* C3: install runs configure and compile whatever the build directory and
\* its marker look like; the elevated install step is spawned only after
\* both returned 0 in this run; if the build phase fails the install step is
\* never spawned and install ends with exit status 1.
C3_InstallBuildsFirst ==
    (invocation > 0 /\ command = "install") =>
        /\ Logged("INFO", "All dependencies found") => SpawnedAt(cmake_args) # {}
        /\ \A k \in SpawnedAt(install_cmd) :
            /\ k >= 3
            /\ spawned[k - 2] = cmake_args /\ rets[k - 2] = 0
            /\ spawned[k - 1] = build_cmd /\ rets[k - 1] = 0
        /\ BuildPhaseFailed => SpawnedAt(install_cmd) = {}
        /\ (BuildPhaseFailed /\ Completed) => exitCode = 1
        /\ (Completed /\ exitCode = 0) => SpawnedAt(install_cmd) # {}

C3_Witness ==
    /\ command = "install"
    /\ fs0.marker
    /\ Completed
    /\ exitCode = 0
    /\ SpawnedAt(cmake_args) # {}
    /\ SpawnedAt(install_cmd) # {}

\* C4: test, once the dependency checks passed: with build/Makefile absent
\* exactly one build phase (configure, compile) runs before the test runner;
\* with it present no build phase runs, whatever else the build directory
\* holds; if the build phase fails the test runner is never spawned and the
\* command ends with exit status 1.
C4_TestBuildsIffNoMarker ==
    (invocation > 0 /\ command = "test") =>
        /\ fs0.marker =>
            SpawnedAt(cmake_args) = {} /\ SpawnedAt(build_cmd) = {}
        /\ (~fs0.marker /\ Logged("INFO", "All dependencies found")) =>
            SpawnedAt(cmake_args) # {}
        /\ Cardinality(SpawnedAt(cmake_args)) <= 1
        /\ Cardinality(SpawnedAt(build_cmd)) <= 1
        /\ \A k \in SpawnedAt(ctest_cmd) :
            ~fs0.marker =>
                /\ k >= 3
                /\ spawned[k - 2] = cmake_args /\ rets[k - 2] = 0
                /\ spawned[k - 1] = build_cmd /\ rets[k - 1] = 0
        /\ BuildPhaseFailed => SpawnedAt(ctest_cmd) = {}
        /\ (BuildPhaseFailed /\ Completed) => exitCode = 1

C4_Witness ==
    /\ command = "test"
    /\ fs0.buildDir
    /\ ~fs0.marker
    /\ Completed
    /\ Cardinality(SpawnedAt(cmake_args)) = 1
    /\ SpawnedAt(ctest_cmd) # {}

\* C5: a run in which the operator interrupt is taken ends at once with
\* exit status 130, which is not the failure status 1, without spawning a
\* child or receiving an exit code in that step; nothing is spawned and
\* nothing on the host changes afterwards until the tool is invoked again.
C5_InterruptExits130 ==
    [][ /\ (Interrupted' /\ invocation' = invocation) =>
            /\ pc' = "done"
            /\ exitCode' = 130
            /\ exitCode' # ExitStatus(FALSE)
            /\ spawned' = spawned
            /\ rets' = rets
        /\ (Interrupted /\ invocation' = invocation) =>
            UNCHANGED << spawned, rets, fs, exitCode, pc >> ]_vars

C5_Witness ==
    /\ pc = "done"
    /\ exitCode = 130
    /\ Interrupted
    /\ Len(spawned) = Len(rets) + 1
    /\ spawned[Len(spawned)] = build_cmd

\* C6 as stated: every generator, build driver, install step, test runner or
\* elevated rm that exits non-zero is the last child of its command, and a
\* command that ran to its end after one then has exit status 1.
C6_EveryFailureFatal ==
    \A k \in 1..Len(rets) :
        (IsPhase(spawned[k]) /\ rets[k] # 0) =>
            /\ k = Len(spawned)
            /\ Completed => exitCode = 1

\* the expected files that were there when the run started and are gone
RemovedFiles ==
    { f \in FileNames : fs0.installed[f] # "absent" /\ fs.installed[f] = "absent" }

\* C7: uninstall run to its end has exit status 0; it warns that nothing was
\* found iff no file was removed, and logs "Removed" iff at least one file of
\* the expected set was removed.
C7_UninstallSignals ==
    (invocation > 0 /\ command = "uninstall" /\ Completed) =>
        /\ exitCode = 0
        /\ Logged("WARN", "No installed files found") <=> RemovedFiles = {}
        /\ Logged("INFO", "Removed") <=> RemovedFiles # {}

C7_Witness ==
    /\ command = "uninstall"
    /\ Completed
    /\ RemovedFiles = { files[2] }
    /\ Logged("ERROR", "Failed to remove")
    /\ Logged("INFO", "Removed")

\* uninstall ran to its end from a host with none of the expected files
NothingInstalledDone ==
    /\ command = "uninstall"
    /\ Completed
    /\ \A f \in FileNames : fs0.installed[f] = "absent"

\* C8: every child spawned by uninstall is `sudo rm -f f` for a file f of the
\* expected set that is, when the loop examines it, present or a dangling
\* symlink, and no file gets a second removal; with none of the expected
\* files present nothing is spawned and the run ends with exit status 0 and
\* the "nothing found" warning.
C8_RemovesOnlyExisting ==
    [][ /\ (command' = "uninstall" /\ spawned' # spawned /\ spawned' # <<>>) =>
            \E i \in 1..Len(files) :
                /\ spawned'[Len(spawned')] = <<"sudo", "rm", "-f", files[i]>>
                /\ fs'.installed[files[i]] \in {"file", "symlink"}
                /\ Cardinality(SpawnedAt(<<"sudo", "rm", "-f", files[i]>>))' = 1
        /\ NothingInstalledDone' =>
            /\ spawned' = <<>>
            /\ exitCode' = 0
            /\ Logged("WARN", "No installed files found")' ]_vars

C8_Witness ==
    /\ command = "uninstall"
    /\ fs0.installed[files[1]] = "symlink"
    /\ fs0.installed[files[2]] = "absent"
    /\ Completed
    /\ spawned = << <<"sudo", "rm", "-f", files[1]>> >>

\* what holds of every clean
CleanOutcome ==
    (invocation > 0 /\ command = "clean") =>
        /\ spawned = <<>>
        /\ fs.installed = fs0.installed
        /\ Completed =>
            /\ exitCode = 0
            /\ ~fs.buildDir /\ ~fs.marker
            /\ ~fs0.buildDir =>
                fs = fs0 /\ Logged("INFO", "Nothing to clean")

\* C9: clean spawns no child process and, run to its end, has exit status 0
\* and leaves no build directory; without a build directory it logs "Nothing
\* to clean" and changes nothing; a clean right after a clean that succeeded
\* ends with the same filesystem and the same exit status.
C9_CleanIdempotent ==
    [][ /\ CleanOutcome'
        /\ ( /\ command = "clean" /\ Completed /\ exitCode = 0
             /\ command' = "clean" /\ invocation' = invocation + 1 ) =>
                /\ Completed'
                /\ exitCode' = exitCode
                /\ fs' = fs
                /\ spawned' = <<>> ]_vars

C9_Witness ==
    /\ command = "clean"
    /\ invocation = 2
    /\ Completed
    /\ exitCode = 0
    /\ fs0.buildDir /\ fs0.marker
    /\ ~fs.buildDir
    /\ Logged("INFO", "Clean complete")

\* the child argv has returned 0 in this run
ReturnedZero(argv) == \E k \in SpawnedAt(argv) : k <= Len(rets) /\ rets[k] = 0

\* a dependency check made main return 1
DepCheckFailed ==
    \E msg \in {"cmake not found!", "C++ compiler not found!",
                "pkg-config not found!", "Missing dependencies!"} :
        Logged("ERROR", msg)

DepChecksPassed == ChecksDeps(command) => Logged("INFO", "All dependencies found")

\* the command handler returned True
HandlerSucceeded ==
    CASE command = "build" -> ReturnedZero(cmake_args) /\ ReturnedZero(build_cmd)
      [] command = "install" -> ReturnedZero(install_cmd)
      [] command = "test" -> ReturnedZero(ctest_cmd)
      [] OTHER -> pc = "done"

\* the command handler returned False
HandlerFailed ==
    /\ command \in {"build", "install", "test"}
    /\ \E k \in 1..Len(rets) : IsPhase(spawned[k]) /\ rets[k] # 0

\* C10: the exit status of a run is 0, 1 or 130: 130 iff the run was ended by
\* the operator interrupt, 0 iff it was not and the dependency checks (when
\* the command has them) passed and the handler returned success, 1 iff it
\* was not and a dependency check failed or the handler returned failure.
C10_ExitStatus ==
    /\ pc # "done" => exitCode = NoExit
    /\ pc = "done" =>
        /\ exitCode \in {0, 1, 130}
        /\ exitCode = 130 <=> Interrupted
        /\ exitCode = 0 <=> (~Interrupted /\ DepChecksPassed /\ HandlerSucceeded)
        /\ exitCode = 1 <=> (~Interrupted /\ (DepCheckFailed \/ HandlerFailed))

C10_Witness ==
    /\ command = "test"
    /\ pc = "done"
    /\ exitCode = 1
    /\ Len(rets) = Len(spawned)
    /\ spawned[Len(spawned)] = ctest_cmd
    /\ rets[Len(rets)] = 2

\* the read-only probes among the children of this run
ProbeIdx == { k \in 1..Len(spawned) : ~IsPhase(spawned[k]) }

\* the removals uninstall makes on the files that were there at its start
ExpectedRemovals ==
    LET want == SelectSeq(files, LAMBDA f : fs0.installed[f] # "absent")
    IN [ k \in 1..Len(want) |-> <<"sudo", "rm", "-f", want[k]>> ]

\* C11: a probe is spawned, and the checking banner logged, only by build,
\* install and test, which always enter the checks; clean and uninstall spawn
\* no probe and their children and exit status are fixed by the files on
\* disk alone: clean spawns nothing, uninstall spawns one removal per
\* expected file present at its start, and both end with exit status 0,
\* whichever tools the host has.
C11_ChecksOnlyForBuilds ==
    invocation > 0 =>
        /\ (command \in {"build", "install", "test"})
              <=> Logged("INFO", "CHECKING DEPENDENCIES")
        /\ ProbeIdx # {} => command \in {"build", "install", "test"}
        /\ command = "clean" => spawned = <<>>
        /\ (command = "uninstall" /\ Completed) => spawned = ExpectedRemovals
        /\ (command \in {"clean", "uninstall"} /\ Completed) => exitCode = 0

C11_Witness ==
    /\ command = "uninstall"
    /\ tools = {}
    /\ Completed
    /\ exitCode = 0
    /\ Len(spawned) = 2

\* the probes of this run, in the order spawned
ProbeSeq == SelectSeq(spawned, LAMBDA a : ~IsPhase(a))

\* the probes a run of the checks makes on this host when it is not cut short
ExpectedProbes ==
    LET deps == [ i \in 1..Len(REQUIRED_DEPS) |->
                    <<"pkg-config", "--exists", REQUIRED_DEPS[i][1]>> ]
        afterCompiler ==
            IF ~CompilerPresent THEN <<>>
            ELSE << <<"which", "pkg-config">> >>
                 \o (IF "pkg-config" \in tools THEN deps ELSE <<>>)
        afterCmake ==
            IF "cmake" \notin tools THEN <<>>
            ELSE << <<"which", "g++">> >>
                 \o (IF "g++" \in tools THEN <<>> ELSE << <<"which", "clang++">> >>)
                 \o afterCompiler
    IN << <<"which", "cmake">> >> \o afterCmake

IsPrefix(a, b) == Len(a) <= Len(b) /\ SubSeq(b, 1, Len(a)) = a

\* C12: in build, install and test the probes come first and in the order
\* cmake, compiler candidates, pkg-config, the 7 libraries; a probe is made
\* only if every tool probed before it was found, a library is probed only
\* if all three tools were found, and a run that is not interrupted probes
\* all 7 libraries once the first one is probed.
C12_ProbeOrder ==
    (invocation > 0 /\ command \in {"build", "install", "test"}) =>
        /\ IsPrefix(ProbeSeq, ExpectedProbes)
        /\ IsPrefix(ProbeSeq, spawned)
        /\ PhaseIdx # {} => ProbeSeq = ExpectedProbes
        /\ Completed => ProbeSeq = ExpectedProbes

C12_Witness ==
    /\ command = "build"
    /\ tools = {"cmake", "clang++", "pkg-config"}
    /\ Completed
    /\ exitCode = 1
    /\ Len(ProbeSeq) = 11
    /\ rets[5] = 1
    /\ rets[11] = 0

\* the phase children of this run, in the order spawned
PhaseSeq == SelectSeq(spawned, LAMBDA a : IsPhase(a))

\* configure, compile, then the install step or the test runner
FixedOrder ==
    CASE command = "install" -> << cmake_args, build_cmd, install_cmd >>
      [] command = "test" -> << cmake_args, build_cmd, ctest_cmd >>
      [] OTHER -> << cmake_args, build_cmd >>

\* C13 as stated: the phase children of build, install and test always form
\* a prefix of configure, compile, then install step or test runner.
C13_PrefixOfFixedOrder ==
    (invocation > 0 /\ command \in {"build", "install", "test"}) =>
        IsPrefix(PhaseSeq, FixedOrder)

\* the order of the phases of this run: test skips the build phase when the
\* marker was there
PhaseOrder ==
    IF command = "test" /\ fs0.marker THEN << ctest_cmd >> ELSE FixedOrder

\* C13 amended: no phase child is spawned twice in one run; the phase
\* children of build, install and test form a prefix of configure, compile,
\* then install step or test runner, except that test with the marker
\* present spawns the test runner alone; a phase is spawned only after the
\* phase before it returned 0, so the build driver only after the generator
\* returned 0 in the same run.
C13_NoRetry ==
    (invocation > 0 /\ command \in {"build", "install", "test"}) =>
        /\ IsPrefix(PhaseSeq, PhaseOrder)
        /\ \A k \in PhaseIdx : Cardinality(SpawnedAt(spawned[k])) = 1
        /\ \A k \in PhaseIdx : (k - 1) \in PhaseIdx => rets[k - 1] = 0
        /\ \A k \in SpawnedAt(build_cmd) :
            k > 1 /\ spawned[k - 1] = cmake_args /\ rets[k - 1] = 0

C13_Witness ==
    /\ command = "install"
    /\ Completed
    /\ exitCode = 1
    /\ PhaseSeq = << cmake_args, build_cmd, install_cmd >>
    /\ rets[Len(rets)] = 2

\* C14: a test run that spawned the test runner and was not interrupted has
\* exit status 0 iff the test runner returned 0, and 1 otherwise, whatever
\* the marker and the artifact were.
C14_TestOutcomeIsRunnerExit ==
    (invocation > 0 /\ command = "test" /\ Completed) =>
        \A k \in SpawnedAt(ctest_cmd) :
            /\ exitCode = 0 <=> rets[k] = 0
            /\ exitCode = 1 <=> rets[k] # 0

C14_Witness ==
    /\ command = "test"
    /\ Completed
    /\ fs0.marker
    /\ ~fs.binary
    /\ exitCode = 0
    /\ PhaseSeq = << ctest_cmd >>

\* C15: build with all tools and libraries found, run to its end: the exit
\* status is 0 iff the generator returned 0 and the build driver returned 0;
\* on success the artifact is reported ("Built build/ouroboros") iff
\* build/ouroboros exists then, and it is never reported on failure.
C15_BuildOutcome ==
    ( /\ invocation > 0 /\ command = "build" /\ Completed
      /\ ~ToolAbsent /\ AbsentDeps = {} ) =>
        /\ exitCode = 0 <=> (ReturnedZero(cmake_args) /\ ReturnedZero(build_cmd))
        /\ exitCode = 0 => (Logged("INFO", "Built build/ouroboros") <=> fs.binary)
        /\ exitCode # 0 => ~Logged("INFO", "Built build/ouroboros")

C15_Witness ==
    /\ command = "build"
    /\ Completed
    /\ exitCode = 0
    /\ ~fs0.binary
    /\ fs.binary
    /\ Logged("INFO", "Built build/ouroboros")

\* the build output of f includes that of g
KeepsBuildOutput(f, g) ==
    /\ g.buildDir => f.buildDir
    /\ g.marker => f.marker
    /\ g.binary => f.binary

\* a test that got past the checks without a marker builds exactly once
TestBuildsOnce ==
    (invocation > 0 /\ command = "test" /\ ~fs0.marker) =>
        /\ Cardinality(SpawnedAt(cmake_args)) <= 1
        /\ Cardinality(SpawnedAt(build_cmd)) <= 1
        /\ Logged("INFO", "All dependencies found") =>
            Cardinality(SpawnedAt(cmake_args)) = 1
        /\ SpawnedAt(ctest_cmd) # {} =>
            PhaseSeq = << cmake_args, build_cmd, ctest_cmd >>

\* a clean that ran to its end succeeded and left no build output
CleanRemovesAll ==
    (invocation > 0 /\ command = "clean" /\ Completed) =>
        /\ exitCode = 0
        /\ ~fs.buildDir /\ ~fs.marker /\ ~fs.binary

\* C16: no step of build, install, test or uninstall, failing and
\* interrupted ones included, removes the build directory, its marker or the
\* artifact, and the next invocation starts from the filesystem the last one
\* left; a clean run to its end, whatever was left, has exit status 0 and
\* leaves no build directory and no marker; the invocation after a clean
\* run to its end starts without marker, and a test started without marker
\* runs exactly one build phase once its checks pass.
C16_NoRollbackCleanRecovers ==
    [][ /\ command' # "clean" => KeepsBuildOutput(fs', fs)
        /\ invocation' = invocation + 1 => (fs' = fs /\ fs0' = fs)
        /\ CleanRemovesAll'
        /\ (command = "clean" /\ Completed /\ invocation' = invocation + 1) =>
              (~fs0'.buildDir /\ ~fs0'.marker)
        /\ TestBuildsOnce' ]_vars

C16_Witness ==
    /\ invocation = 2
    /\ command = "test"
    /\ ~fs0.buildDir
    /\ Completed
    /\ PhaseSeq = << cmake_args, build_cmd, ctest_cmd >>

\* where main is blocked on a probe
CheckingPcs ==
    {"check_cmake", "check_gpp", "check_clangpp", "check_pkg_config", "check_dep"}

\* a library probe of this run has failed
LibMissingSeen ==
    \E k \in 1..Len(rets) : spawned[k][1] = "pkg-config" /\ rets[k] # 0

\* C17: no step taken while main is blocked on a probe, and no step that
\* starts the checks, changes the build directory, the marker, the artifact
\* or the installed files; a build, install or test on a host with a tool
\* missing, or that has seen a library missing, has the filesystem it
\* started with and has spawned no phase.
C17_ChecksReadOnly ==
    [][ /\ (pc \in CheckingPcs \/ pc' \in CheckingPcs) => fs' = fs
        /\ ( /\ invocation' > 0
             /\ command' \in {"build", "install", "test"}
             /\ ToolAbsent' \/ LibMissingSeen' ) =>
                (fs' = fs0' /\ PhaseIdx' = {}) ]_vars

C17_Witness ==
    /\ command = "install"
    /\ Completed
    /\ exitCode = 1
    /\ ~ToolAbsent
    /\ LibMissingSeen
    /\ fs0.buildDir
    /\ fs = fs0

\* the child is run through the elevation command
Elevated(argv) == argv[1] = "sudo"

\* C19: a child run with the elevation prefix is either the install step of
\* install, spawned right after configure and compile returned 0, or the
\* removal of one expected file by uninstall; every other child is a plain
\* which, pkg-config, cmake or ctest; build, test and clean spawn no
\* elevated child.
C19_ElevationConfined ==
    invocation > 0 =>
        \A k \in 1..Len(spawned) :
            IF Elevated(spawned[k])
            THEN \/ /\ command = "install"
                    /\ spawned[k] = <<"sudo", "cmake", "--install">>
                    /\ k >= 3
                    /\ spawned[k - 1] = <<"cmake", "--build">> /\ rets[k - 1] = 0
                    /\ spawned[k - 2] = <<"cmake", "-S", "-B">> /\ rets[k - 2] = 0
                 \/ /\ command = "uninstall"
                    /\ \E f \in FileNames : spawned[k] = <<"sudo", "rm", "-f", f>>
            ELSE /\ spawned[k][1] \in {"which", "pkg-config", "cmake", "ctest"}
                 /\ spawned[k] # <<"cmake", "--install">>

C19_Witness ==
    /\ command = "install"
    /\ Completed
    /\ exitCode = 0
    /\ Elevated(spawned[Len(spawned)])
    /\ \A k \in 1..(Len(spawned) - 1) : ~Elevated(spawned[k])

\* an invocation is under way
Running == pc \notin {"idle", "done"}

\* the order of the places where main blocks
PcRank ==
    [ p \in {"idle", "check_cmake", "check_gpp", "check_clangpp",
             "check_pkg_config", "check_dep", "configure", "compile",
             "install_step", "ctest", "rm", "rmtree", "done"} |->
        CASE p = "idle" -> 0
          [] p \in {"check_cmake", "rm", "rmtree"} -> 1
          [] p = "check_gpp" -> 2
          [] p = "check_clangpp" -> 3
          [] p = "check_pkg_config" -> 4
          [] p = "check_dep" -> 5
          [] p = "configure" -> 6
          [] p = "compile" -> 7
          [] p \in {"install_step", "ctest"} -> 8
          [] OTHER -> 9 ]

\* a step of a run goes to a later place, or to the next entry of the
\* loop it is in
StepsForward ==
    (Running /\ invocation' = invocation) =>
        \/ PcRank[pc'] > PcRank[pc]
        \/ pc' = pc /\ pc = "check_dep" /\ depIdx' = depIdx + 1
        \/ pc' = pc /\ pc = "rm" /\ fileIdx' > fileIdx

\* a run waits for the one child it spawned last, or for its own rmtree,
\* and a run that ended without interrupt has exit status 0 or 1
WaitsForChildOnly ==
    /\ Running => (Len(spawned) = Len(rets) + 1 \/ pc = "rmtree")
    /\ (pc = "done" /\ ~Interrupted) =>
          (exitCode \in {0, 1} /\ Len(spawned) = Len(rets))

\* C18: provided every child process eventually exits, every invocation
\* reaches the end of main with its exit status; while it runs it waits for
\* its last child only, and each of its steps goes forward in the order of
\* the phases, never back to an earlier one.
C18_Terminates ==
    /\ Running ~> (pc = "done")
    /\ [][StepsForward /\ WaitsForChildOnly']_vars

C18_Witness ==
    /\ command = "install"
    /\ pc = "done"
    /\ ~Interrupted
    /\ exitCode = 0
    /\ Len(spawned) = 4 + Len(REQUIRED_DEPS) + 3

====
